---- MODULE Spec2Model ----
(***************************************************************************)
(* cute-dynamo (src/index.js): a module-level client handle set by init(), *)
(* and table(name).at(key).get() / .put(data), which send one GetCommand   *)
(* or PutCommand through that handle and wrap the payload in the string    *)
(* attribute JSON.                                                         *)
(*                                                                         *)
(* JavaScript values are tagged records.  A JavaScript string is the       *)
(* sequence of its characters, so that JSON.stringify and JSON.parse are   *)
(* computed character by character.  An object is the sequence of its      *)
(* <<name, value>> properties in insertion order.                          *)
(***************************************************************************)
EXTENDS Integers, Sequences, FiniteSets, TLC

(***************************************************************************)
(* Bounds of the model.                                                    *)
(***************************************************************************)
MaxInits == 2      \* init() calls in one run
MaxOps == 1        \* get()/put() calls pending at the same time

(***************************************************************************)
(* JavaScript values.                                                      *)
(***************************************************************************)
Undefined == [t |-> "undefined"]
Null == [t |-> "null"]
Bool(b) == [t |-> "boolean", b |-> b]
Num(n) == [t |-> "number", n |-> n]
Str(s) == [t |-> "string", s |-> s]
Arr(xs) == [t |-> "array", xs |-> xs]
Obj(kv) == [t |-> "object", kv |-> kv]
\* an object that refers to itself: JSON.stringify throws on it
Circular == [t |-> "circular"]

\* ToBoolean, as `a ? b : c`, `a && b` and `a || b` apply it
Truthy(v) ==
    CASE v.t = "undefined" -> FALSE
      [] v.t = "null" -> FALSE
      [] v.t = "boolean" -> v.b
      [] v.t = "number" -> v.n # 0
      [] v.t = "string" -> v.s # <<>>
      [] OTHER -> TRUE

\* a || b
OrElse(a, b) == IF Truthy(a) THEN a ELSE b

\* obj.name: the property's value, undefined when the object has none
RECURSIVE Lookup(_, _)
Lookup(kv, name) ==
    IF kv = <<>> THEN Undefined
    ELSE IF kv[Len(kv)][1] = name THEN kv[Len(kv)][2]
    ELSE Lookup(SubSeq(kv, 1, Len(kv) - 1), name)

Prop(v, name) == IF v.t = "object" THEN Lookup(v.kv, name) ELSE Undefined

Names(kv) == {kv[i][1] : i \in 1..Len(kv)}

\* obj[name] = val on a property list: replaces in place, or appends
SetProp(kv, name, val) ==
    IF name \in Names(kv)
    THEN [i \in 1..Len(kv) |-> IF kv[i][1] = name THEN <<name, val>> ELSE kv[i]]
    ELSE Append(kv, <<name, val>>)

\* {...a, ...b}: the properties of a, then those of b over them
RECURSIVE Spread(_, _)
Spread(a, b) ==
    IF b = <<>> THEN a
    ELSE Spread(SetProp(a, b[1][1], b[1][2]), Tail(b))

(***************************************************************************)
(* Deep equality: objects compare as maps from names to values, whatever   *)
(* the order of their properties.                                          *)
(***************************************************************************)
RECURSIVE Canon(_)
Canon(v) ==
    CASE v.t = "array" -> [t |-> "array", xs |-> [i \in 1..Len(v.xs) |-> Canon(v.xs[i])]]
      [] v.t = "object" ->
            [t |-> "object", f |-> [n \in Names(v.kv) |-> Canon(Lookup(v.kv, n))]]
      [] OTHER -> v

DeepEqual(a, b) == Canon(a) = Canon(b)

(***************************************************************************)
(* Characters.                                                             *)
(***************************************************************************)
DigitChars == <<"0", "1", "2", "3", "4", "5", "6", "7", "8", "9">>
Quote == "\""
Backslash == "\\"

IsDigit(c) == \E d \in 1..10 : DigitChars[d] = c
DigitValue(c) == (CHOOSE d \in 1..10 : DigitChars[d] = c) - 1

\* Number::toString of an integer
RECURSIVE NatChars(_)
NatChars(n) ==
    IF n < 10 THEN <<DigitChars[n + 1]>>
    ELSE NatChars(n \div 10) \o <<DigitChars[(n % 10) + 1]>>

NumChars(n) == IF n < 0 THEN <<"-">> \o NatChars(-n) ELSE NatChars(n)

(***************************************************************************)
(* JSON.stringify(value).                                                  *)
(***************************************************************************)
Chars_null == <<"n", "u", "l", "l">>
Chars_true == <<"t", "r", "u", "e">>
Chars_false == <<"f", "a", "l", "s", "e">>
Chars_undefined == <<"u", "n", "d", "e", "f", "i", "n", "e", "d">>
Chars_objectObject ==
    <<"[", "o", "b", "j", "e", "c", "t", " ", "O", "b", "j", "e", "c", "t", "]">>

\* the characters of a string with quote and backslash escaped
RECURSIVE Escape(_)
Escape(s) ==
    IF s = <<>> THEN <<>>
    ELSE (IF Head(s) \in {Quote, Backslash} THEN <<Backslash, Head(s)>> ELSE <<Head(s)>>)
         \o Escape(Tail(s))

QuoteString(s) == <<Quote>> \o Escape(s) \o <<Quote>>

RECURSIVE Join(_)
Join(parts) ==
    IF parts = <<>> THEN <<>>
    ELSE IF Len(parts) = 1 THEN parts[1]
    ELSE parts[1] \o <<",">> \o Join(Tail(parts))

\* the properties JSON.stringify writes: those whose value is not undefined
RECURSIVE Defined(_)
Defined(kv) ==
    IF kv = <<>> THEN <<>>
    ELSE (IF kv[1][2].t = "undefined" THEN <<>> ELSE <<kv[1]>>) \o Defined(Tail(kv))

\* whether serialization meets a cycle and throws
RECURSIVE Throws(_)
Throws(v) ==
    CASE v.t = "circular" -> TRUE
      [] v.t = "array" -> \E i \in 1..Len(v.xs) : Throws(v.xs[i])
      [] v.t = "object" -> \E i \in 1..Len(v.kv) : Throws(v.kv[i][2])
      [] OTHER -> FALSE

\* SerializeJSONProperty of a value that is not undefined
RECURSIVE Serialize(_)
Serialize(v) ==
    CASE v.t = "null" -> Chars_null
      [] v.t = "boolean" -> IF v.b THEN Chars_true ELSE Chars_false
      [] v.t = "number" -> NumChars(v.n)
      [] v.t = "string" -> QuoteString(v.s)
      [] v.t = "array" ->
            <<"[">>
            \o Join([i \in 1..Len(v.xs) |->
                        IF v.xs[i].t = "undefined" THEN Chars_null ELSE Serialize(v.xs[i])])
            \o <<"]">>
      [] v.t = "object" ->
            LET kv == Defined(v.kv) IN
            <<"{">>
            \o Join([i \in 1..Len(kv) |->
                        QuoteString(kv[i][1]) \o <<":">> \o Serialize(kv[i][2])])
            \o <<"}">>

\* JSON.stringify(v): throws, or returns undefined (for undefined) or a string
Stringify(v) ==
    IF Throws(v) THEN [ok |-> FALSE, v |-> Undefined]
    ELSE IF v.t = "undefined" THEN [ok |-> TRUE, v |-> Undefined]
    ELSE [ok |-> TRUE, v |-> Str(Serialize(v))]

(***************************************************************************)
(* JSON.parse(text): a recursive descent over the characters.  A result is *)
(* [ok, v, rest]: the value read and the characters left after it.         *)
(***************************************************************************)
ParseFail == [ok |-> FALSE, v |-> Undefined, rest |-> <<>>]
ParseOk(v, rest) == [ok |-> TRUE, v |-> v, rest |-> rest]

RECURSIVE SkipWs(_)
SkipWs(s) == IF s # <<>> /\ Head(s) = " " THEN SkipWs(Tail(s)) ELSE s

StartsWith(s, p) == Len(s) >= Len(p) /\ SubSeq(s, 1, Len(p)) = p
Drop(s, n) == SubSeq(s, n + 1, Len(s))

RECURSIVE ParseDigits(_, _)
ParseDigits(s, n) ==
    IF s # <<>> /\ IsDigit(Head(s))
    THEN ParseDigits(Tail(s), 10 * n + DigitValue(Head(s)))
    ELSE ParseOk(Num(n), s)

\* an integer literal: no leading zero before another digit
ParseNat(s) ==
    IF s = <<>> \/ ~IsDigit(Head(s)) THEN ParseFail
    ELSE IF Head(s) = "0" THEN ParseOk(Num(0), Tail(s))
    ELSE ParseDigits(s, 0)

ParseNumber(s) ==
    IF Head(s) = "-"
    THEN LET r == ParseNat(Tail(s)) IN
         IF r.ok THEN ParseOk(Num(-r.v.n), r.rest) ELSE ParseFail
    ELSE ParseNat(s)

\* the characters after an opening quote, up to the closing one
RECURSIVE ParseStringBody(_, _)
ParseStringBody(s, acc) ==
    IF s = <<>> THEN ParseFail
    ELSE IF Head(s) = Quote THEN ParseOk(Str(acc), Tail(s))
    ELSE IF Head(s) = Backslash
         THEN IF Len(s) >= 2 /\ s[2] \in {Quote, Backslash, "/"}
              THEN ParseStringBody(Drop(s, 2), Append(acc, s[2]))
              ELSE ParseFail
    ELSE ParseStringBody(Tail(s), Append(acc, Head(s)))

RECURSIVE ParseValue(_)
RECURSIVE ParseElements(_, _)
RECURSIVE ParseMembers(_, _)

ParseElements(s, acc) ==
    LET r == ParseValue(s)
        s2 == SkipWs(r.rest)
    IN  IF ~r.ok \/ s2 = <<>> THEN ParseFail
        ELSE IF Head(s2) = "," THEN ParseElements(Tail(s2), Append(acc, r.v))
        ELSE IF Head(s2) = "]" THEN ParseOk(Arr(Append(acc, r.v)), Tail(s2))
        ELSE ParseFail

ParseMembers(s, kv) ==
    LET s1 == SkipWs(s)
        k == IF s1 # <<>> /\ Head(s1) = Quote THEN ParseStringBody(Tail(s1), <<>>)
             ELSE ParseFail
        s2 == SkipWs(k.rest)
        r == IF k.ok /\ s2 # <<>> /\ Head(s2) = ":" THEN ParseValue(Tail(s2)) ELSE ParseFail
        s3 == SkipWs(r.rest)
    IN  IF ~r.ok \/ s3 = <<>> THEN ParseFail
        ELSE IF Head(s3) = "," THEN ParseMembers(Tail(s3), SetProp(kv, k.v.s, r.v))
        ELSE IF Head(s3) = "}" THEN ParseOk(Obj(SetProp(kv, k.v.s, r.v)), Tail(s3))
        ELSE ParseFail

ParseValue(s0) ==
    LET s == SkipWs(s0) IN
    IF s = <<>> THEN ParseFail
    ELSE IF StartsWith(s, Chars_null) THEN ParseOk(Null, Drop(s, 4))
    ELSE IF StartsWith(s, Chars_true) THEN ParseOk(Bool(TRUE), Drop(s, 4))
    ELSE IF StartsWith(s, Chars_false) THEN ParseOk(Bool(FALSE), Drop(s, 5))
    ELSE IF Head(s) = "-" \/ IsDigit(Head(s)) THEN ParseNumber(s)
    ELSE IF Head(s) = Quote THEN ParseStringBody(Tail(s), <<>>)
    ELSE IF Head(s) = "["
         THEN LET s1 == SkipWs(Tail(s)) IN
              IF s1 # <<>> /\ Head(s1) = "]" THEN ParseOk(Arr(<<>>), Tail(s1))
              ELSE ParseElements(s1, <<>>)
    ELSE IF Head(s) = "{"
         THEN LET s1 == SkipWs(Tail(s)) IN
              IF s1 # <<>> /\ Head(s1) = "}" THEN ParseOk(Obj(<<>>), Tail(s1))
              ELSE ParseMembers(s1, <<>>)
    ELSE ParseFail

\* ToStringJS(v), which JSON.parse applies to its argument first
RECURSIVE ToStringJS(_)
ToStringJS(v) ==
    CASE v.t = "string" -> v.s
      [] v.t = "number" -> NumChars(v.n)
      [] v.t = "boolean" -> IF v.b THEN Chars_true ELSE Chars_false
      [] v.t = "array" ->
            Join([i \in 1..Len(v.xs) |->
                     IF v.xs[i].t \in {"undefined", "null"} THEN <<>> ELSE ToStringJS(v.xs[i])])
      [] v.t \in {"object", "circular"} -> Chars_objectObject
      [] v.t = "null" -> Chars_null
      [] OTHER -> Chars_undefined

\* JSON.parse(v): the value, or a SyntaxError
Parse(v) ==
    LET r == ParseValue(ToStringJS(v)) IN
    IF r.ok /\ SkipWs(r.rest) = <<>> THEN [ok |-> TRUE, v |-> r.v]
    ELSE [ok |-> FALSE, v |-> Undefined]

(***************************************************************************)
(* Names and strings of the program and of its callers.                    *)
(***************************************************************************)
N_JSON == <<"J", "S", "O", "N">>
N_Item == <<"I", "t", "e", "m">>
N_metadata == <<"$", "m", "e", "t", "a", "d", "a", "t", "a">>
N_pk == <<"p", "k">>
N_sk == <<"s", "k">>
N_name == <<"n", "a", "m", "e">>
N_age == <<"a", "g", "e">>
S_users == Str(<<"u", "s", "e", "r", "s">>)
S_orders == Str(<<"o", "r", "d", "e", "r", "s">>)
S_Ada == Str(<<"A", "d", "a">>)
S_empty == Str(<<>>)
S_region == Str(<<"u", "s", "-", "e", "a", "s", "t", "-", "1">>)
S_envRegion == Str(<<"e", "u", "-", "w", "e", "s", "t", "-", "1">>)
S_pool == Str(<<"p", "o", "o", "l">>)
S_envPool == Str(<<"e", "n", "v", "-", "p", "o", "o", "l">>)
S_accessKey == Str(<<"A", "K", "I", "A">>)
S_envAccessKey == Str(<<"e", "n", "v", "-", "A", "K", "I", "A">>)
S_secret == Str(<<"s", "e", "c", "r", "e", "t">>)
S_envSecret == Str(<<"e", "n", "v", "-", "s", "e", "c", "r", "e", "t">>)

VARIABLES
    env,        \* process.env as the module reads it, or no `process` at all
    client,     \* `let client`: undefined until an init assigns it
    inits,      \* the init() calls: where each one is
    ops,        \* the get()/put() calls: where each one is
    store,      \* the backend's tables: the item held for each (table, key)
    last,       \* history: for each (table, key), the write the backend applied last
    assigned    \* history: the init calls in the order they assigned `client`

vars == <<env, client, inits, ops, store, last, assigned>>

(***************************************************************************)
(* The environment: typeof process !== 'undefined' ? process.env.X :       *)
(* undefined.                                                              *)
(***************************************************************************)
NoProcess ==
    [hasProcess |-> FALSE, AWS_REGION |-> Undefined, AWS_IDENTITY_POOL_ID |-> Undefined,
     AWS_ACCESS_KEY_ID |-> Undefined, AWS_SECRET_ACCESS_KEY |-> Undefined,
     DYNAMODB_TABLE |-> Undefined]

EnvVar(e, name) == IF e.hasProcess THEN e[name] ELSE Undefined

\* a destructuring default: it applies to undefined only
Default(given, fallback) == IF given.t = "undefined" THEN fallback ELSE given

(***************************************************************************)
(* init(options)                                                           *)
(***************************************************************************)
\* the parameters of init after their defaults
Config(e, options) ==
    [region |-> Default(options.region, EnvVar(e, "AWS_REGION")),
     identityPoolId |-> Default(options.identityPoolId, EnvVar(e, "AWS_IDENTITY_POOL_ID")),
     accessKeyId |-> Default(options.accessKeyId, EnvVar(e, "AWS_ACCESS_KEY_ID")),
     secretAccessKey |-> Default(options.secretAccessKey, EnvVar(e, "AWS_SECRET_ACCESS_KEY"))]

\* Strategy with the keys tested by `||`: one key alone passes for a pair
StrategyEitherKey(cfg) ==
    IF Truthy(cfg.identityPoolId) THEN "Federated"
    ELSE IF Truthy(cfg.accessKeyId) \/ Truthy(cfg.secretAccessKey) THEN "Static"
    ELSE "Insufficient"

\* Strategy with the branches in the other order: the keys are tested first
StrategyKeysFirst(cfg) ==
    IF Truthy(cfg.accessKeyId) /\ Truthy(cfg.secretAccessKey) THEN "Static"
    ELSE IF Truthy(cfg.identityPoolId) THEN "Federated"
    ELSE "Insufficient"

\* the branch init takes
Strategy(cfg) ==
    IF Truthy(cfg.identityPoolId) THEN "Federated"
    ELSE IF Truthy(cfg.accessKeyId) /\ Truthy(cfg.secretAccessKey) THEN "Static"
    ELSE "Insufficient"

\* fromCognitoIdentityPool({client: new CognitoIdentityClient({region}), identityPoolId})
FederatedCredentials(cfg) ==
    [type |-> "Federated", region |-> cfg.region, identityPoolId |-> cfg.identityPoolId,
     accessKeyId |-> Undefined, secretAccessKey |-> Undefined]

\* {accessKeyId, secretAccessKey}
StaticCredentials(cfg) ==
    [type |-> "Static", region |-> Undefined, identityPoolId |-> Undefined,
     accessKeyId |-> cfg.accessKeyId, secretAccessKey |-> cfg.secretAccessKey]

\* DynamoDBDocumentClient.from(new DynamoDBClient({region, credentials})): a new object
NewClient(i, cfg, credentials) ==
    [t |-> "client", id |-> i, region |-> cfg.region, credentials |-> credentials]

\* init(): the parameter object defaults to {}
NoOptions == [region |-> Undefined, identityPoolId |-> Undefined,
              accessKeyId |-> Undefined, secretAccessKey |-> Undefined]

IdleInit == [pc |-> "idle", cfg |-> NoOptions, published |-> Undefined]

\* what the assignment of line 60 leaves in `client`
Publish(current, handle) == handle

\* init(options) is called and runs to its first await, its throw or its end
InitCall(i, options) ==
    /\ inits[i].pc = "idle"
    /\ \A j \in 1..(i - 1) : inits[j].pc # "idle"
    /\ LET cfg == Config(env, options)
           rec == [pc |-> "idle", cfg |-> cfg, published |-> Undefined]
           handle == NewClient(i, cfg, StaticCredentials(cfg))
       IN  CASE Strategy(cfg) = "Federated" ->
                    /\ inits' = [inits EXCEPT ![i] = [rec EXCEPT !.pc = "import1"]]
                    /\ UNCHANGED <<client, assigned>>
             [] Strategy(cfg) = "Static" ->
                    /\ client' = Publish(client, handle)
                    /\ inits' = [inits EXCEPT ![i] =
                                    [rec EXCEPT !.pc = "done", !.published = handle]]
                    /\ assigned' = Append(assigned, i)
             [] OTHER ->
                    /\ inits' = [inits EXCEPT ![i] = [rec EXCEPT !.pc = "failed"]]
                    /\ UNCHANGED <<client, assigned>>
    /\ UNCHANGED <<env, ops, store, last>>

\* await import("@aws-sdk/client-cognito-identity") resumes
InitImported(i) ==
    /\ inits[i].pc = "import1"
    /\ inits' = [inits EXCEPT ![i].pc = "import2"]
    /\ UNCHANGED <<env, client, ops, store, last, assigned>>

\* await import("@aws-sdk/credential-provider-cognito-identity") resumes; init ends
InitFederated(i) ==
    /\ inits[i].pc = "import2"
    /\ LET handle == NewClient(i, inits[i].cfg, FederatedCredentials(inits[i].cfg)) IN
       /\ client' = Publish(client, handle)
       /\ inits' = [inits EXCEPT ![i].pc = "done", ![i].published = handle]
    /\ assigned' = Append(assigned, i)
    /\ UNCHANGED <<env, ops, store, last>>

(***************************************************************************)
(* The backend behind the wrapped client: tables of items.  An item is     *)
(* held under its key attributes (pk, and sk when it has one); a put       *)
(* replaces the whole item.                                                *)
(***************************************************************************)
K_profile == Obj(<< <<N_pk, Str(<<"u", "1">>)>>, <<N_sk, Str(<<"p", "r", "o", "f", "i", "l", "e">>)>> >>)
K_missing == Obj(<< <<N_pk, Str(<<"m", "i", "s", "s", "i", "n", "g">>)>> >>)
Keys == {K_profile, K_missing}
Tables == {S_users, S_orders}
Cells == Tables \X Keys

Response(kv) == [ok |-> TRUE, v |-> Obj(<< <<N_metadata, Obj(<<>>)>> >> \o kv)]
Failure(name) == [ok |-> FALSE, v |-> [t |-> "error", name |-> name]]

RECURSIVE KeyProps(_)
KeyProps(kv) ==
    IF kv = <<>> THEN <<>>
    ELSE (IF kv[1][1] \in {N_pk, N_sk} THEN <<kv[1]>> ELSE <<>>) \o KeyProps(Tail(kv))

KeyOf(item) == IF item.t = "object" THEN Obj(KeyProps(item.kv)) ELSE Undefined

\* the wrapped client marshals an item: it refuses an undefined attribute value
Marshals(item) ==
    item.t = "object" /\ \A i \in 1..Len(item.kv) : item.kv[i][2].t # "undefined"

\* the backend's answer to a request, given its tables
Answer(request, tables) ==
    IF request.TableName \notin Tables THEN Failure("ResourceNotFoundException")
    ELSE IF request.cmd = "GetCommand"
    THEN IF request.Key \notin Keys THEN Failure("ValidationException")
         ELSE LET item == tables[<<request.TableName, request.Key>>] IN
              IF item.t = "undefined" THEN Response(<<>>)
              ELSE Response(<< <<N_Item, item>> >>)
    ELSE IF ~Marshals(request.Item) \/ KeyOf(request.Item) \notin Keys
         THEN Failure("ValidationException")
         ELSE Response(<<>>)

\* the backend's tables after it has answered a request
Applied(request, tables) ==
    IF request.cmd = "PutCommand" /\ Answer(request, tables).ok
    THEN [tables EXCEPT ![<<request.TableName, KeyOf(request.Item)>>] = request.Item]
    ELSE tables

(***************************************************************************)
(* table(tablename).at(PKorPKSK).get() and .put(data)                      *)
(***************************************************************************)
NoOutcome == [type |-> "pending", v |-> Undefined]
Return(v) == [type |-> "return", v |-> v]
Throw(name) == [type |-> "throw", v |-> [t |-> "error", name |-> name]]
Rethrow(error) == [type |-> "throw", v |-> error]

NoRequest == [cmd |-> "none", TableName |-> Undefined, Key |-> Undefined, Item |-> Undefined]
NoWrite == [by |-> "nobody", data |-> Undefined, over |-> "nothing"]

\* history: what a write to a cell replaces
Replaced(item, previous, data) ==
    IF item.t = "undefined" THEN "nothing"
    ELSE IF previous.by # "put" THEN "a foreign item"
    ELSE IF previous.data = data THEN "the same payload"
    ELSE "another payload"

\* atCall (`client` when the call was made) is history, kept while the call is pending
IdleOp == [pc |-> "idle", kind |-> "none", tablename |-> Undefined, PKorPKSK |-> Undefined,
           data |-> Undefined, atCall |-> Undefined, via |-> Undefined, sends |-> 0,
           request |-> NoRequest, answer |-> Failure("none"), seen |-> NoWrite,
           outcome |-> NoOutcome]

\* tablename || (typeof process !== 'undefined' ? process.env.DYNAMODB_TABLE : undefined)
TableName(e, tablename) == OrElse(tablename, EnvVar(e, "DYNAMODB_TABLE"))

\* new GetCommand({TableName, Key: PKorPKSK})
GetCommand(e, tablename, PKorPKSK) ==
    [cmd |-> "GetCommand", TableName |-> TableName(e, tablename), Key |-> PKorPKSK,
     Item |-> Undefined]

\* PutItem with the payload's own properties spread into the item as well
PutItemSpread(PKorPKSK, data) ==
    Obj(Spread(Spread(IF PKorPKSK.t = "object" THEN PKorPKSK.kv ELSE <<>>,
                      IF data.t = "object" THEN data.kv ELSE <<>>),
               << <<N_JSON, Stringify(data).v>> >>))

\* the Item of put: {...PKorPKSK, JSON: JSON.stringify(data)}
PutItem(PKorPKSK, data) ==
    Obj(Spread(IF PKorPKSK.t = "object" THEN PKorPKSK.kv ELSE <<>>,
               << <<N_JSON, Stringify(data).v>> >>))

\* new PutCommand({TableName, Item})
PutCommand(e, tablename, PKorPKSK, data) ==
    [cmd |-> "PutCommand", TableName |-> TableName(e, tablename), Key |-> Undefined,
     Item |-> PutItem(PKorPKSK, data)]

\* whether evaluating the command's argument throws before client.send is called
ArgumentThrows(op) == op.kind = "put" /\ ~Stringify(op.data).ok

\* GetResult falling back to the item when the parsed value is falsy
GetResultTruthyValue(response) ==
    LET Item == Prop(response, N_Item) IN
    IF Truthy(Item) /\ Truthy(Prop(Item, N_JSON))
    THEN LET parsed == Parse(Prop(Item, N_JSON)) IN
         IF parsed.ok THEN Return(OrElse(parsed.v, Item)) ELSE Throw("SyntaxError")
    ELSE Return(OrElse(Item, Null))

\* GetResult without `|| null`
GetResultNoNull(response) ==
    LET Item == Prop(response, N_Item) IN
    IF Truthy(Item) /\ Truthy(Prop(Item, N_JSON))
    THEN LET parsed == Parse(Prop(Item, N_JSON)) IN
         IF parsed.ok THEN Return(parsed.v) ELSE Throw("SyntaxError")
    ELSE Return(Item)

\* GetResult parsing the JSON attribute of every item, whether it has one or not
GetResultAlwaysParse(response) ==
    LET Item == Prop(response, N_Item) IN
    IF Truthy(Item)
    THEN LET parsed == Parse(Prop(Item, N_JSON)) IN
         IF parsed.ok THEN Return(parsed.v) ELSE Throw("SyntaxError")
    ELSE Return(OrElse(Item, Null))

\* GetResult testing `'JSON' in response.Item` instead of the attribute's truth
GetResultHasJSON(response) ==
    LET Item == Prop(response, N_Item) IN
    IF Truthy(Item) /\ N_JSON \in Names(Item.kv)
    THEN LET parsed == Parse(Prop(Item, N_JSON)) IN
         IF parsed.ok THEN Return(parsed.v) ELSE Throw("SyntaxError")
    ELSE Return(OrElse(Item, Null))

\* line 82: response.Item && response.Item.JSON ? JSON.parse(response.Item.JSON)
\*                                              : response.Item || null
GetResult(response) ==
    LET Item == Prop(response, N_Item) IN
    IF Truthy(Item) /\ Truthy(Prop(Item, N_JSON))
    THEN LET parsed == Parse(Prop(Item, N_JSON)) IN
         IF parsed.ok THEN Return(parsed.v) ELSE Throw("SyntaxError")
    ELSE Return(OrElse(Item, Null))

\* put returns what client.send resolved to
PutResult(response) == Return(response)

\* OnBackendError sending the request once more before it gives up
OnBackendErrorRetry(op, answer) ==
    IF op.sends < 2 THEN [op EXCEPT !.sends = @ + 1]
    ELSE [op EXCEPT !.pc = "done", !.atCall = Undefined, !.answer = answer,
                    !.outcome = Rethrow(answer.v)]

\* a rejected client.send: neither get nor put catches it
OnBackendError(op, answer) ==
    [op EXCEPT !.pc = "done", !.atCall = Undefined, !.answer = answer,
               !.outcome = Rethrow(answer.v)]

\* HandleFor making a client of its own when none was published
HandleForLazy(op, current) ==
    IF current.t = "undefined" THEN NewClient(0, NoOptions, StaticCredentials(NoOptions))
    ELSE current

\* HandleFor using the global as it was when get/put was called
HandleForAtCall(op, current) == op.atCall

\* the handle a call sends through: the global, read when client.send is evaluated
HandleFor(op, current) == current

\* get() is called: it runs to await import("@aws-sdk/lib-dynamodb")
GetCall(o, tablename, PKorPKSK) ==
    /\ ops[o].pc = "idle"
    /\ \A p \in 1..(o - 1) : ops[p].pc # "idle"
    /\ ops' = [ops EXCEPT ![o] = [IdleOp EXCEPT !.pc = "import", !.kind = "get",
                                     !.tablename = tablename, !.PKorPKSK = PKorPKSK,
                                     !.atCall = client]]
    /\ UNCHANGED <<env, client, inits, store, last, assigned>>

\* put(data) is called: it runs to await import("@aws-sdk/lib-dynamodb")
PutCall(o, tablename, PKorPKSK, data) ==
    /\ ops[o].pc = "idle"
    /\ \A p \in 1..(o - 1) : ops[p].pc # "idle"
    /\ ops' = [ops EXCEPT ![o] = [IdleOp EXCEPT !.pc = "import", !.kind = "put",
                                     !.tablename = tablename, !.PKorPKSK = PKorPKSK,
                                     !.data = data, !.atCall = client]]
    /\ UNCHANGED <<env, client, inits, store, last, assigned>>

\* the import resolves: client.send is read, the command is built, the request is sent
Send(o) ==
    /\ ops[o].pc = "import"
    /\ LET op == ops[o]
           handle == HandleFor(op, client)
       IN  ops' = [ops EXCEPT ![o] =
              IF handle.t = "undefined"
              THEN [op EXCEPT !.pc = "done", !.atCall = Undefined,
                              !.outcome = Throw("TypeError: client is undefined")]
              ELSE IF ArgumentThrows(op)
              THEN [op EXCEPT !.pc = "done", !.atCall = Undefined, !.via = handle,
                              !.outcome = Throw("TypeError: circular structure")]
              ELSE [op EXCEPT !.pc = "sent", !.via = handle, !.sends = @ + 1,
                              !.request = IF op.kind = "get"
                                          THEN GetCommand(env, op.tablename, op.PKorPKSK)
                                          ELSE PutCommand(env, op.tablename, op.PKorPKSK,
                                                          op.data)]]
    /\ UNCHANGED <<env, client, inits, store, last, assigned>>

\* the wrapped client settles the request: the backend answers it, or the request fails
\* on the way (throttling, network, authorization)
Settle(o, transient) ==
    /\ ops[o].pc = "sent"
    /\ LET op == ops[o]
           answer == IF transient THEN Failure("ProvisionedThroughputExceededException")
                     ELSE Answer(op.request, store)
           cell == IF op.kind = "get" THEN <<op.request.TableName, op.request.Key>>
                   ELSE <<op.request.TableName, KeyOf(op.request.Item)>>
       IN  /\ ops' = [ops EXCEPT ![o] =
                 IF ~answer.ok THEN OnBackendError(op, answer)
                 ELSE [op EXCEPT !.pc = "done", !.atCall = Undefined, !.answer = answer,
                                 !.seen = IF op.kind = "get" THEN last[cell] ELSE NoWrite,
                                 !.outcome = IF op.kind = "get" THEN GetResult(answer.v)
                                             ELSE PutResult(answer.v)]]
           /\ store' = IF transient THEN store ELSE Applied(op.request, store)
           /\ last' = IF answer.ok /\ op.kind = "put"
                      THEN [last EXCEPT ![cell] =
                               [by |-> "put", data |-> op.data,
                                over |-> Replaced(store[cell], last[cell], op.data)]]
                      ELSE last
    /\ UNCHANGED <<env, client, inits, assigned>>

\* the caller takes the result (or the exception) of a finished call
Finish(o) ==
    /\ ops[o].pc = "done"
    /\ ops' = [ops EXCEPT ![o] = IdleOp]
    /\ UNCHANGED <<env, client, inits, store, last, assigned>>

\* another tool writes an item of its own to the backend
ForeignPut(cell, item) ==
    /\ store' = [store EXCEPT ![cell] = item]
    /\ last' = [last EXCEPT ![cell] =
                    [by |-> "another tool", data |-> Undefined,
                     over |-> Replaced(store[cell], last[cell], Undefined)]]
    /\ UNCHANGED <<env, client, inits, ops, assigned>>

(***************************************************************************)
(* Inputs.                                                                 *)
(***************************************************************************)
\* a server process whose environment names only the default table
E_table == [NoProcess EXCEPT !.hasProcess = TRUE, !.DYNAMODB_TABLE = S_orders]
\* a server process whose environment holds every variable the module reads
E_full ==
    [hasProcess |-> TRUE, AWS_REGION |-> S_envRegion, AWS_IDENTITY_POOL_ID |-> S_envPool,
     AWS_ACCESS_KEY_ID |-> S_envAccessKey, AWS_SECRET_ACCESS_KEY |-> S_envSecret,
     DYNAMODB_TABLE |-> S_orders]
\* a server process with static keys in its environment
E_keys == [E_full EXCEPT !.AWS_IDENTITY_POOL_ID = Undefined]

O_static == [NoOptions EXCEPT !.region = S_region, !.accessKeyId = S_accessKey,
                              !.secretAccessKey = S_secret]
O_pool == [NoOptions EXCEPT !.region = S_region, !.identityPoolId = S_pool]

\* every combination of absent, empty and given options
AllOptions ==
    [region : {S_region},
     identityPoolId : {Undefined, S_empty, S_pool},
     accessKeyId : {Undefined, S_empty, S_accessKey},
     secretAccessKey : {Undefined, S_empty, S_secret}]

P_Ada == Obj(<< <<N_name, S_Ada>>, <<N_age, Num(30)>> >>)

\* the values without undefined fields that JSON can carry
JsonPayloads ==
    {Null, Bool(FALSE), Bool(TRUE), Num(0), Num(30), Num(-1), S_empty, S_Ada,
     Str(Chars_null), Str(<<Quote, Backslash, " ">>), Obj(<<>>), Arr(<<>>), P_Ada,
     Obj(<< <<N_JSON, Num(0)>> >>),
     Arr(<<Num(0), S_empty, Obj(<<>>), Null>>),
     Obj(<< <<N_name, Arr(<<P_Ada, Bool(FALSE)>>)>>, <<N_sk, Obj(<<>>)>> >>)}

\* undefined, values with undefined fields, and a value with a cycle
OtherPayloads ==
    {Undefined, Obj(<< <<N_name, Undefined>>, <<N_age, Num(30)>> >>), Arr(<<Undefined>>),
     Circular}

AllPayloads == JsonPayloads \cup OtherPayloads

\* what another tool may have stored under a key
ForeignItems(key) ==
    {Obj(key.kv \o << <<N_name, S_Ada>> >>),
     Obj(key.kv \o << <<N_JSON, S_empty>> >>),
     Obj(key.kv \o << <<N_JSON, Num(0)>> >>),
     Obj(key.kv \o << <<N_JSON, Bool(FALSE)>> >>),
     Obj(key.kv \o << <<N_JSON, Null>> >>),
     Obj(key.kv \o << <<N_JSON, Num(7)>> >>),
     Obj(key.kv \o << <<N_JSON, Str(<<"{", " ", "}">>)>>, <<N_name, S_Ada>> >>),
     Obj(key.kv \o << <<N_JSON, S_Ada>> >>)}

(***************************************************************************)
(* The program from its start.                                             *)
(***************************************************************************)
Begin(e) ==
    /\ env = e
    /\ client = Undefined
    /\ inits = [i \in 1..MaxInits |-> IdleInit]
    /\ ops = [o \in 1..MaxOps |-> IdleOp]
    /\ store = [c \in Cells |-> Undefined]
    /\ last = [c \in Cells |-> NoWrite]
    /\ assigned = <<>>

(***************************************************************************)
(* Spec: init calls and get/put calls interleaved on the event loop.       *)
(***************************************************************************)
Init == Begin(E_table)

Next ==
    \/ \E i \in 1..MaxInits, options \in {NoOptions, O_static, O_pool} : InitCall(i, options)
    \/ \E i \in 1..MaxInits : InitImported(i)
    \/ \E i \in 1..MaxInits : InitFederated(i)
    \/ \E o \in 1..MaxOps : GetCall(o, S_users, K_profile)
    \/ \E o \in 1..MaxOps, data \in {P_Ada, Circular} : PutCall(o, S_users, K_profile, data)
    \/ \E o \in 1..MaxOps : Send(o)
    \/ \E o \in 1..MaxOps, transient \in BOOLEAN : Settle(o, transient)
    \/ \E o \in 1..MaxOps : Finish(o)

Spec == Init /\ [][Next]_vars

(***************************************************************************)
(* SpecInit: init alone, over every configuration.                         *)
(***************************************************************************)
InitConfig == \E e \in {NoProcess, E_keys, E_full} : Begin(e)

NextConfig ==
    \/ \E i \in 1..MaxInits, options \in AllOptions : InitCall(i, options)
    \/ \E i \in 1..MaxInits : InitImported(i)
    \/ \E i \in 1..MaxInits : InitFederated(i)

SpecInit == InitConfig /\ [][NextConfig]_vars

(***************************************************************************)
(* SpecSeq: a caller that awaits each call before the next, over every     *)
(* payload, beside another tool that writes to the same tables.            *)
(***************************************************************************)
\* the item of the concrete scenario, and one in the default table
Main == <<S_users, K_profile>>
Targets == {Main, <<Undefined, K_missing>>}
\* a key of table users that nobody writes
Unwritten == <<S_users, K_missing>>

\* every payload goes to the main target; the other one takes two of them
PayloadsFor(target) == IF target = Main THEN AllPayloads ELSE {P_Ada, Null}

Awaited == \A o \in 1..MaxOps : ops[o].pc = "idle"

SeqInit(i, options) == Awaited /\ InitCall(i, options)
SeqGet(target) == Awaited /\ GetCall(1, target[1], target[2])
SeqPut(target, data) == Awaited /\ PutCall(1, target[1], target[2], data)
SeqForeignPut(target, item) ==
    Awaited /\ ForeignPut(<<TableName(env, target[1]), target[2]>>, item)

NextSeq ==
    \/ \E i \in 1..MaxInits : SeqInit(i, O_static)
    \/ \E target \in Targets \cup {Unwritten} : SeqGet(target)
    \/ \E target \in Targets : \E data \in PayloadsFor(target) : SeqPut(target, data)
    \/ Send(1)
    \/ \E transient \in BOOLEAN : Settle(1, transient)
    \/ Finish(1)
    \/ \E item \in ForeignItems(Main[2]) : SeqForeignPut(Main, item)

SpecSeq == Init /\ [][NextSeq]_vars

(***************************************************************************)
(* Properties.                                                             *)
(***************************************************************************)
\* a value JSON can carry: no undefined anywhere in it, and no cycle
RECURSIVE JsonValue(_)
JsonValue(v) ==
    CASE v.t \in {"null", "boolean", "number", "string"} -> TRUE
      [] v.t = "array" -> \A i \in 1..Len(v.xs) : JsonValue(v.xs[i])
      [] v.t = "object" -> \A i \in 1..Len(v.kv) : JsonValue(v.kv[i][2])
      [] OTHER -> FALSE

\* an option or variable that is there: a string that is not empty
Present(v) == v.t = "string" /\ v.s # <<>>

\* a get that the backend has answered
Got(o) == ops[o].pc = "done" /\ ops[o].kind = "get" /\ ops[o].answer.ok
\* the Item of the answer, undefined when the answer has none
ItemOf(o) == Prop(ops[o].answer.v, N_Item)
HasAttribute(item, name) == item.t = "object" /\ name \in Names(item.kv)

\* C1: a get that reads what a put of a JSON value v wrote, with no write to the same
\* table and key in between, returns a value deep-equal to v.
RoundTrip ==
    \A o \in 1..MaxOps :
        (Got(o) /\ ops[o].seen.by = "put" /\ JsonValue(ops[o].seen.data))
            => /\ ops[o].outcome.type = "return"
               /\ DeepEqual(ops[o].outcome.v, ops[o].seen.data)

\* a get has read the item that put(null) wrote, and returned null
RoundTripWitness ==
    \E o \in 1..MaxOps :
        /\ Got(o) /\ ops[o].seen.by = "put" /\ ops[o].seen.data = Null
        /\ Prop(ItemOf(o), N_JSON) = Str(Chars_null)
        /\ ops[o].outcome = Return(Null)

\* C2: a get for which the backend holds no item returns null: it does not throw and
\* does not return undefined.
AbsentIsNull ==
    \A o \in 1..MaxOps :
        (Got(o) /\ ItemOf(o).t = "undefined") => ops[o].outcome = Return(Null)

\* table('users').at({pk: 'missing'}).get() has returned null
AbsentWitness ==
    \E o \in 1..MaxOps :
        /\ Got(o) /\ ItemOf(o).t = "undefined"
        /\ ops[o].request.TableName = S_users /\ ops[o].request.Key = K_missing
        /\ ops[o].outcome = Return(Null)

\* C3: a get that finds an item with no JSON attribute returns the item's attributes
\* as the backend returned them.
RawItem ==
    \A o \in 1..MaxOps :
        (Got(o) /\ ItemOf(o).t = "object" /\ ~HasAttribute(ItemOf(o), N_JSON))
            => ops[o].outcome = Return(ItemOf(o))

\* a get has returned another tool's item {pk, sk, name}
RawItemWitness ==
    \E o \in 1..MaxOps :
        /\ Got(o) /\ ops[o].seen.by = "another tool"
        /\ ItemOf(o) = Obj(K_profile.kv \o << <<N_name, S_Ada>> >>)
        /\ ops[o].outcome = Return(ItemOf(o))

\* C4: after a put over an earlier item, the stored item is the key attributes plus
\* the JSON attribute of the last put, and a get returns the last put's value.
Overwrite ==
    /\ \A c \in Cells :
          last[c].by = "put"
              => DeepEqual(store[c],
                           Obj(c[2].kv \o << <<N_JSON, Stringify(last[c].data).v>> >>))
    /\ \A o \in 1..MaxOps :
          (Got(o) /\ ops[o].seen.by = "put" /\ ops[o].seen.over # "nothing"
                  /\ JsonValue(ops[o].seen.data))
              => /\ ops[o].outcome.type = "return"
                 /\ DeepEqual(ops[o].outcome.v, ops[o].seen.data)
                 /\ Names(ItemOf(o).kv) = Names(ops[o].request.Key.kv) \cup {N_JSON}

\* put(v1), put({name: 'Ada', age: 30}), get: the get has returned the second value
OverwriteWitness ==
    \E o \in 1..MaxOps :
        /\ Got(o) /\ ops[o].seen.by = "put" /\ ops[o].seen.over = "another payload"
        /\ ops[o].seen.data = P_Ada
        /\ ops[o].outcome = Return(P_Ada)
        /\ Names(ItemOf(o).kv) = {N_pk, N_sk, N_JSON}

\* C5: an init whose configuration has no identityPoolId and lacks accessKeyId or
\* secretAccessKey fails, and leaves `client` as it was.
Insufficient(cfg) ==
    /\ ~Present(cfg.identityPoolId)
    /\ ~Present(cfg.accessKeyId) \/ ~Present(cfg.secretAccessKey)

InsufficientFails ==
    [][\A i \in 1..MaxInits :
          (inits[i].pc = "idle" /\ inits'[i].pc # "idle" /\ Insufficient(inits'[i].cfg))
              => (inits'[i].pc = "failed" /\ client' = client)]_vars

\* a second init has failed for want of a secret key, and the first one's handle stays
InsufficientWitness ==
    /\ inits[1].pc = "done" /\ inits[2].pc = "failed"
    /\ Present(inits[2].cfg.accessKeyId) /\ ~Present(inits[2].cfg.secretAccessKey)
    /\ ~Present(inits[2].cfg.identityPoolId)
    /\ client = inits[1].published

\* C6: with identityPoolId present init takes the Federated path, whatever the keys;
\* it publishes Static credentials only without identityPoolId and with both keys; the
\* handle in `client` is one an init published, of one of the two kinds.
Precedence ==
    /\ \A i \in 1..MaxInits :
          /\ (inits[i].pc # "idle" /\ Present(inits[i].cfg.identityPoolId))
                => /\ inits[i].pc \in {"import1", "import2", "done"}
                   /\ inits[i].pc = "done"
                         => /\ inits[i].published.credentials.type = "Federated"
                            /\ inits[i].published.credentials.identityPoolId
                                  = inits[i].cfg.identityPoolId
          /\ (inits[i].pc = "done" /\ inits[i].published.credentials.type = "Static")
                => /\ ~Present(inits[i].cfg.identityPoolId)
                   /\ Present(inits[i].cfg.accessKeyId)
                   /\ Present(inits[i].cfg.secretAccessKey)
          /\ (inits[i].pc # "done") => inits[i].published.t = "undefined"
    /\ client.t # "undefined"
          => /\ client.credentials.type \in {"Federated", "Static"}
             /\ \E i \in 1..MaxInits : inits[i].pc = "done" /\ client = inits[i].published

\* an init given identityPoolId and both keys has published Federated credentials
PrecedenceWitness ==
    \E i \in 1..MaxInits :
        /\ inits[i].pc = "done"
        /\ Present(inits[i].cfg.identityPoolId)
        /\ Present(inits[i].cfg.accessKeyId) /\ Present(inits[i].cfg.secretAccessKey)
        /\ client = inits[i].published
        /\ client.credentials.type = "Federated"

\* C7: while no init has succeeded, no get or put has sent a request, and every one
\* that has ended has thrown the TypeError of reading `send` of undefined.
NoInitYet == \A i \in 1..MaxInits : inits[i].pc # "done"

Uninitialized ==
    NoInitYet
        => \A o \in 1..MaxOps :
              /\ ops[o].sends = 0 /\ ops[o].pc # "sent"
              /\ ops[o].pc = "done"
                    => /\ ops[o].outcome = Throw("TypeError: client is undefined")
                       /\ ~ops[o].answer.ok /\ ops[o].answer.v.name = "none"

\* after a failed init, a put has ended with that TypeError
UninitializedWitness ==
    /\ NoInitYet /\ inits[1].pc = "failed"
    /\ \E o \in 1..MaxOps :
          /\ ops[o].pc = "done" /\ ops[o].kind = "put"
          /\ ops[o].outcome = Throw("TypeError: client is undefined")

\* C8, as claimed: a get that finds an item with a JSON attribute, whatever its value,
\* returns the parsed attribute and never the item itself.
EnvelopeAlwaysParsed ==
    \A o \in 1..MaxOps :
        (Got(o) /\ HasAttribute(ItemOf(o), N_JSON))
            => /\ ops[o].outcome # Return(ItemOf(o))
               /\ Parse(Prop(ItemOf(o), N_JSON)).ok
                     => ops[o].outcome = Return(Parse(Prop(ItemOf(o), N_JSON)).v)

\* C8, amended: with a truthy JSON attribute get returns JSON.parse of it, or throws
\* its SyntaxError; with a JSON attribute that is the empty string, 0, false or null it
\* returns the item itself.
Falsy == {S_empty, Num(0), Bool(FALSE), Null}

EnvelopeWhenTruthy ==
    \A o \in 1..MaxOps :
        (Got(o) /\ HasAttribute(ItemOf(o), N_JSON))
            => LET attr == Prop(ItemOf(o), N_JSON) IN
               IF attr \in Falsy THEN ops[o].outcome = Return(ItemOf(o))
               ELSE IF Parse(attr).ok THEN ops[o].outcome = Return(Parse(attr).v)
               ELSE ops[o].outcome = Throw("SyntaxError")

\* a get has found an item whose JSON attribute is the empty string, and returned the item
EnvelopeWitness ==
    \E o \in 1..MaxOps :
        /\ Got(o) /\ HasAttribute(ItemOf(o), N_JSON)
        /\ Prop(ItemOf(o), N_JSON) = S_empty
        /\ ops[o].outcome = Return(ItemOf(o))

\* C9, as claimed: every get and put that found a client has sent exactly one request.
ExactlyOneRequest ==
    \A o \in 1..MaxOps :
        (ops[o].pc = "done" /\ ops[o].via.t # "undefined") => ops[o].sends = 1

\* C9, amended: a get, or a put whose payload JSON.stringify accepts, that found a
\* client sends exactly one request; a failure of the request is rethrown as it is and
\* an answer without an item is not a failure.  A put whose payload JSON.stringify
\* rejects sends none.
OneRequest ==
    \A o \in 1..MaxOps :
        /\ ops[o].pc = "sent" => ops[o].sends = 1
        /\ (ops[o].pc = "done" /\ ops[o].via.t # "undefined")
              => IF ops[o].kind = "put" /\ Throws(ops[o].data)
                 THEN /\ ops[o].sends = 0
                      /\ ops[o].outcome = Throw("TypeError: circular structure")
                 ELSE /\ ops[o].sends = 1
                      /\ ~ops[o].answer.ok
                            => ops[o].outcome = [type |-> "throw", v |-> ops[o].answer.v]
                      /\ (ops[o].answer.ok /\ ops[o].kind = "get"
                                           /\ ItemOf(o).t = "undefined")
                            => ops[o].outcome.type = "return"

\* a request has failed in the backend: it was sent once and its error was rethrown
OneRequestWitness ==
    \E o \in 1..MaxOps :
        /\ ops[o].pc = "done" /\ ops[o].via.t = "client" /\ ops[o].sends = 1
        /\ ~ops[o].answer.ok
        /\ ops[o].answer.v.name = "ProvisionedThroughputExceededException"
        /\ ops[o].outcome.type = "throw" /\ ops[o].outcome.v = ops[o].answer.v

\* C10: a get or put sends through the handle that is in `client` when it resumes
\* after its import; a request that was sent keeps its handle whatever init does
\* later; and when no init is in progress `client` is the handle of the init that
\* assigned last.
Pending == {i \in 1..MaxInits : inits[i].pc \in {"import1", "import2"}}

LookupTime ==
    [][/\ \A o \in 1..MaxOps :
             /\ (ops[o].pc = "import" /\ ops'[o].pc # "import") => ops'[o].via = client
             /\ (ops[o].pc = "sent" /\ ops'[o].pc \in {"sent", "done"})
                   => /\ ops'[o].via = ops[o].via
                      /\ ops'[o].request = ops[o].request
       /\ (Pending' = {} /\ assigned' # <<>>)
             => client' = inits'[assigned'[Len(assigned')]].published]_vars

\* init 2 assigned first and init 1 after it; a call made under init 2's handle has
\* sent its request through init 1's
LookupTimeWitness ==
    /\ assigned = <<2, 1>> /\ Pending = {} /\ client = inits[1].published
    /\ \E o \in 1..MaxOps :
          /\ ops[o].pc = "sent"
          /\ ops[o].atCall = inits[2].published
          /\ ops[o].via = inits[1].published

====
